---- MODULE Spec2Model ----
(***************************************************************************)
(* Model of the batch processor of email-fournisseurs-automation:          *)
(* EmailProcessor.process_emails and _process_single_email                 *)
(* (src/src/email_processor.py), the mailbox gateway they drive            *)
(* (src/src/outlook_handler.py), the renderer's entry check                *)
(* (src/src/pdf_generator.py) and keyword parsing (src/src/utils/          *)
(* sanitize.py).                                                           *)
(*                                                                         *)
(* One worker runs process_emails; the initiating thread may call stop()   *)
(* at any moment.  Strings are sequences of one-character strings.         *)
(*                                                                         *)
(* The gateway object is the attribute processor.outlook_handler, which    *)
(* is assigned from outside (email_processor.py:473).  Two facts about it  *)
(* decide how far a run gets, and both are part of the state:              *)
(*   has_ensure_category  - the object has ensure_category_exists; class   *)
(*                          OutlookHandler (outlook_handler.py:207-466)    *)
(*                          does not define it;                            *)
(*   filter_takes_dates   - its filter_emails accepts date_from/date_to;   *)
(*                          OutlookHandler.filter_emails                   *)
(*                          (outlook_handler.py:351-353) does not.         *)
(* FALSE/FALSE is the gateway class of the repository.                     *)
(*                                                                         *)
(* Five further specifications call one function on its own:               *)
(*   SpecFilter    OutlookHandler.filter_emails on a folder                *)
(*   SpecSanitize  sanitize_text (src/src/utils/sanitize.py)               *)
(*   SpecPdf       PDFGenerator.generate_email_pdf and the files of its    *)
(*                 output folder (src/src/pdf_generator.py)                *)
(*   SpecMerge     PDFGenerator._merge_with_attachments and what it puts   *)
(*                 into the merged document                                *)
(*   SpecOffice    PDFGenerator._word_to_pdf and _excel_to_pdf with the    *)
(*                 calls they make on the office application               *)
(***************************************************************************)
EXTENDS Integers, Sequences, FiniteSets, TLC

\* ------------------------------------------------------------------ bounds
\* largest inbox the runs are checked on
MaxMsgs == 3
\* provider / renderer / filesystem failures injected into one run
MaxFaults == 2

\* ------------------------------------------------------------- strings
None == "None"

\* str.lower() on one character: the letters A-Z, every other character of
\* the model is left as it is
UpperLetters == <<"A", "B", "C", "D", "E", "F", "G", "H", "I", "J", "K", "L", "M",
                  "N", "O", "P", "Q", "R", "S", "T", "U", "V", "W", "X", "Y", "Z">>
LowerLetters == <<"a", "b", "c", "d", "e", "f", "g", "h", "i", "j", "k", "l", "m",
                  "n", "o", "p", "q", "r", "s", "t", "u", "v", "w", "x", "y", "z">>

LowerChar(c) ==
    IF \E n \in 1..Len(UpperLetters) : UpperLetters[n] = c
    THEN LowerLetters[CHOOSE n \in 1..Len(UpperLetters) : UpperLetters[n] = c]
    ELSE c

Lower(s) == [j \in 1..Len(s) |-> LowerChar(s[j])]

\* a in b  (substring test of Python's `in` on str)
IsSubstring(a, b) ==
    \E j \in 0..(Len(b) - Len(a)) : SubSeq(b, j + 1, j + Len(a)) = a

\* str.strip(): leading and trailing blanks removed
RECURSIVE StripLeft(_)
StripLeft(s) ==
    IF s # <<>> /\ Head(s) = " " THEN StripLeft(Tail(s)) ELSE s

RECURSIVE StripRight(_)
StripRight(s) ==
    IF s # <<>> /\ s[Len(s)] = " " THEN StripRight(SubSeq(s, 1, Len(s) - 1)) ELSE s

Strip(s) == StripRight(StripLeft(s))

\* str.split(','): the pieces between commas, empty pieces kept
RECURSIVE SplitComma(_, _)
SplitComma(s, cur) ==
    IF s = <<>> THEN <<cur>>
    ELSE IF Head(s) = "," THEN <<cur>> \o SplitComma(Tail(s), <<>>)
    ELSE SplitComma(Tail(s), Append(cur, Head(s)))

\* the non-empty elements of s, in order
RECURSIVE SelectNonEmpty(_)
SelectNonEmpty(s) ==
    IF s = <<>> THEN <<>>
    ELSE IF Head(s) # <<>> THEN <<Head(s)>> \o SelectNonEmpty(Tail(s))
    ELSE SelectNonEmpty(Tail(s))

\* validate_keywords without the strip() of the pieces
validate_keywords_NoStrip(keywords_str) ==
    IF keywords_str = <<>> THEN <<>>
    ELSE SelectNonEmpty(SplitComma(keywords_str, <<>>))

validate_keywords(keywords_str) ==
    IF keywords_str = <<>> THEN <<>>
    ELSE LET parts == SplitComma(keywords_str, <<>>)
         IN  SelectNonEmpty([j \in 1..Len(parts) |-> Strip(parts[j])])

\* ------------------------------------------------------------ the inputs
\* ProcessingStatus (email_processor.py:20-26)
PENDING == "pending"
IN_PROGRESS == "in_progress"
SUCCESS == "success"
FAILED == "failed"
SKIPPED == "skipped"

\* error_category of process_emails (email_processor.py:251)
error_category == "Erreur traitement"

\* olMail, the Class of a mail item (outlook_handler.py:383)
olMail == 43

\* keyword strings a caller passes
KeywordStrings == { <<>>, <<" ", ",">>, <<"k", ",", " ">>, <<"X", ",", " ", "k">> }

\* success categories a caller passes ("" stands for None / empty)
Categories == { "", "Traite" }

\* destination paths a caller passes, and the one folder the store has
ExistingFolder == <<"Box", "Done">>
FolderPaths == { <<>>, ExistingFolder, <<"Box", "Missing">> }

\* The j-th item of the inbox, in the order Items.Sort("[ReceivedTime]", True)
\* yields them.
ItemAt(j) ==
    CASE j % 4 = 1 -> [Subject |-> <<"K">>, UnRead |-> TRUE, Attachments |-> 2]
      [] j % 4 = 2 -> [Subject |-> <<"x", "k">>, UnRead |-> FALSE, Attachments |-> 0]
      [] j % 4 = 3 -> [Subject |-> <<"x">>, UnRead |-> TRUE, Attachments |-> 0]
      [] OTHER     -> [Subject |-> <<"k">>, UnRead |-> TRUE, Attachments |-> 1]

NewItem(j) ==
    [Class |-> olMail, Subject |-> ItemAt(j).Subject, UnRead |-> ItemAt(j).UnRead,
     Attachments |-> ItemAt(j).Attachments, Categories |-> "", Folder |-> "Inbox"]

Inboxes == { [j \in 1..n |-> NewItem(j)] : n \in 0..MaxMsgs }

\* ------------------------------------------------------------- the state
VARIABLES
    \* arguments of process_emails and construction-time facts
    keywords_str, category, target_folder_path, unread_only,
    has_reportlab, has_ensure_category, filter_takes_dates,
    \* the store behind the gateway
    inbox,
    \* EmailProcessor fields
    stats, results, is_running, should_stop, temp_dir, workspace,
    \* OutlookHandler._connected
    connected,
    \* locals of process_emails / _process_single_email and the worker's position
    pc, keywords, target_folder, emails, i, result, attachment_paths, exc,
    \* every call made on the gateway and on its messages, in order
    calls,
    \* failures injected so far
    faults,
    \* where the worker stood (pc, i) when stop() was last called
    stop_at,
    \* PDFGenerator: _has_pypdf2, the files of output_dir, and the calls of
    \* generate_email_pdf made so far with what each returned
    has_pypdf2, output_dir, generated,
    \* PDFGenerator._has_win32com, the _merge_with_attachments calls made alone
    \* with what each returned, and the office conversions made alone
    has_win32com, merged, office,
    \* a text and the results of sanitize_text applied to it again and again
    sanitized

inputs == <<keywords_str, category, target_folder_path, unread_only,
            has_reportlab, has_ensure_category, filter_takes_dates>>
procState == <<stats, results, is_running, temp_dir, workspace>>
locals == <<keywords, target_folder, emails, i, result, attachment_paths, exc>>
mergeState == <<has_win32com, merged, office>>
pdfState == <<has_pypdf2, output_dir, generated, mergeState>>
vars == <<inputs, inbox, procState, should_stop, connected, pc, locals, calls, faults,
          stop_at, pdfState, sanitized>>

\* ProcessingStats() (email_processor.py:48-55)
ProcessingStats ==
    [total |-> 0, processed |-> 0, success |-> 0, failed |-> 0, skipped |-> 0]

\* ProcessingResult(...) as created at email_processor.py:356-360; `email`
\* (the position of the message in the inbox) stands for subject and sender
ProcessingResult(e) ==
    [email |-> e, status |-> PENDING, pdf_path |-> None, error_message |-> None]

NoResult == [email |-> 0, status |-> PENDING, pdf_path |-> None, error_message |-> None]

Call(op, e, arg, ok) == [op |-> op, email |-> e, arg |-> arg, ok |-> ok]

CanFail == faults < MaxFaults

\* output_dir maps the name of each file of PDFGenerator.output_dir to the
\* number of the generate_email_pdf call that wrote it last; NoFiles is the
\* empty folder
NoFiles == [path \in {} |-> 0]

\* no merge and no office conversion was made
NoMerge == has_win32com = TRUE /\ merged = <<>> /\ office = <<>>

Init ==
    /\ keywords_str \in KeywordStrings
    /\ category \in Categories
    /\ target_folder_path \in FolderPaths
    /\ unread_only \in BOOLEAN
    /\ has_reportlab \in BOOLEAN
    /\ has_ensure_category \in BOOLEAN
    /\ filter_takes_dates \in BOOLEAN
    /\ inbox \in Inboxes
    /\ stats = ProcessingStats
    /\ results = <<>>
    /\ is_running = FALSE
    /\ should_stop = FALSE
    /\ temp_dir = None
    /\ workspace = FALSE
    /\ connected = FALSE
    /\ pc = "idle"
    /\ keywords = <<>>
    /\ target_folder = None
    /\ emails = <<>>
    /\ i = 0
    /\ result = NoResult
    /\ attachment_paths = 0
    /\ exc = None
    /\ calls = <<>>
    /\ faults = 0
    /\ stop_at = <<None, 0>>
    /\ has_pypdf2 = TRUE
    /\ output_dir = NoFiles
    /\ generated = <<>>
    /\ NoMerge
    /\ sanitized = <<>>

\* --------------------------------------------------------- the initiator
\* EmailProcessor.stop
Stop ==
    /\ ~should_stop
    /\ should_stop' = TRUE
    /\ stop_at' = <<pc, i>>
    /\ UNCHANGED <<sanitized, pdfState, inputs, inbox, procState, connected, pc, locals, calls, faults>>

\* ------------------------------------------------------- process_emails
\* entry: reset, then tempfile.mkdtemp, which is outside the try block
Start ==
    /\ stop_at' = stop_at
    /\ pc = "idle"
    /\ is_running' = TRUE
    /\ should_stop' = FALSE
    /\ stats' = ProcessingStats
    /\ results' = <<>>
    /\ \/ /\ temp_dir' = "tmp"
          /\ workspace' = TRUE
          /\ pc' = "connect"
          /\ faults' = faults
       \/ /\ CanFail
          /\ UNCHANGED <<temp_dir, workspace>>
          /\ pc' = "raised"
          /\ faults' = faults + 1
    /\ UNCHANGED <<sanitized, pdfState, inputs, inbox, connected, locals, calls>>

\* connect_outlook() wrapped in `if not is_connected`
ConnectOutlook ==
    /\ stop_at' = stop_at
    /\ pc = "connect"
    /\ IF connected
       THEN /\ pc' = "ensure"
            /\ UNCHANGED <<connected, calls, faults, exc>>
       ELSE \/ /\ connected' = TRUE
               /\ calls' = Append(calls, Call("connect", 0, "", TRUE))
               /\ pc' = "ensure"
               /\ UNCHANGED <<faults, exc>>
            \/ /\ CanFail
               /\ faults' = faults + 1
               /\ connected' = FALSE
               /\ calls' = Append(calls, Call("connect", 0, "", FALSE))
               /\ exc' = "OutlookError"
               /\ pc' = "except"
    /\ UNCHANGED <<sanitized, pdfState, inputs, inbox, procState, should_stop,
                   keywords, target_folder, emails, i, result, attachment_paths>>

\* gateway.ensure_category_exists(name, color) when the gateway has it: the
\* tag exists afterwards; the call is recorded
ensure_category_exists(log, name) ==
    Append(log, Call("ensure_category_exists", 0, name, TRUE))

\* the two ensure_category_exists calls; the attribute lookup fails on a
\* gateway without the method
EnsureCategories ==
    /\ stop_at' = stop_at
    /\ pc = "ensure"
    /\ IF ~has_ensure_category
       THEN /\ exc' = "AttributeError"
            /\ pc' = "except"
            /\ UNCHANGED <<calls, faults>>
       ELSE \/ /\ calls' = ensure_category_exists(
                              IF category # ""
                              THEN ensure_category_exists(calls, category)
                              ELSE calls,
                              error_category)
               /\ pc' = "keywords"
               /\ UNCHANGED <<exc, faults>>
            \/ /\ CanFail
               /\ faults' = faults + 1
               /\ calls' = Append(calls,
                     Call("ensure_category_exists", 0,
                          IF category # "" THEN category ELSE error_category, FALSE))
               /\ exc' = "OutlookError"
               /\ pc' = "except"
    /\ UNCHANGED <<sanitized, pdfState, inputs, inbox, procState, should_stop, connected,
                   keywords, target_folder, emails, i, result, attachment_paths>>

\* keywords = validate_keywords(keywords_str); `if not keywords: return`
ValidateKeywords ==
    /\ stop_at' = stop_at
    /\ pc = "keywords"
    /\ keywords' = validate_keywords(keywords_str)
    /\ pc' = IF keywords' = <<>> THEN "finally" ELSE "folder"
    /\ UNCHANGED <<sanitized, pdfState, inputs, inbox, procState, should_stop, connected,
                   target_folder, emails, i, result, attachment_paths, exc, calls, faults>>

\* OutlookHandler.get_folder_by_path: the folder object, or OutlookError
get_folder_by_path(folder_path) ==
    IF folder_path = <<>> THEN "OutlookError"
    ELSE IF folder_path = ExistingFolder THEN folder_path
    ELSE "OutlookError"

\* ResolveFolder that keeps the path string when the lookup fails
ResolveFolder_KeepsPath ==
    /\ stop_at' = stop_at
    /\ pc = "folder"
    /\ target_folder' = IF target_folder_path # <<>> THEN target_folder_path ELSE None
    /\ pc' = "search"
    /\ UNCHANGED <<sanitized, pdfState, inputs, inbox, procState, should_stop, connected,
                   keywords, emails, i, result, attachment_paths, exc, faults, calls>>

\* the destination folder is resolved once; OutlookError leaves it None
ResolveFolder ==
    /\ stop_at' = stop_at
    /\ pc = "folder"
    /\ IF target_folder_path # <<>>
       THEN LET f == get_folder_by_path(target_folder_path)
            IN  /\ target_folder' = IF f = "OutlookError" THEN None ELSE f
                /\ calls' = Append(calls,
                      Call("get_folder_by_path", 0, "", f # "OutlookError"))
       ELSE /\ target_folder' = None
            /\ calls' = calls
    /\ pc' = "search"
    /\ UNCHANGED <<sanitized, pdfState, inputs, inbox, procState, should_stop, connected,
                   keywords, emails, i, result, attachment_paths, exc, faults>>

\* Matches with a case-sensitive test of the subject
Matches_CaseSensitive(item, kws, unread) ==
    /\ item.Class = olMail
    /\ ~(unread /\ ~item.UnRead)
    /\ \E k \in 1..Len(kws) : IsSubstring(kws[k], item.Subject)

\* the test of OutlookHandler.filter_emails on one item
Matches(item, kws, unread) ==
    /\ item.Class = olMail
    /\ ~(unread /\ ~item.UnRead)
    /\ \E k \in 1..Len(kws) : IsSubstring(Lower(kws[k]), Lower(item.Subject))

\* the positions, in inbox order, of the items filter_emails keeps
RECURSIVE filter_emails(_, _, _, _)
filter_emails(box, kws, unread, from) ==
    IF from > Len(box) THEN <<>>
    ELSE (IF Matches(box[from], kws, unread) THEN <<from>> ELSE <<>>)
         \o filter_emails(box, kws, unread, from + 1)

\* get_matching_emails -> filter_emails(..., date_from=, date_to=), then
\* stats.total and the zero-match return
Search ==
    /\ stop_at' = stop_at
    /\ pc = "search"
    /\ IF ~filter_takes_dates
       THEN /\ exc' = "TypeError"
            /\ pc' = "except"
            /\ UNCHANGED <<emails, stats, calls, faults, i>>
       ELSE \/ /\ emails' = filter_emails(inbox, keywords, unread_only, 1)
               /\ calls' = Append(calls, Call("filter_emails", 0, "", TRUE))
               /\ stats' = [stats EXCEPT !.total = Len(emails')]
               /\ i' = 0
               /\ pc' = IF Len(emails') = 0 THEN "finally" ELSE "loop"
               /\ UNCHANGED <<exc, faults>>
            \/ \* get_inbox: the mailbox is not found
               /\ CanFail
               /\ faults' = faults + 1
               /\ calls' = Append(calls, Call("filter_emails", 0, "", FALSE))
               /\ exc' = "OutlookError"
               /\ pc' = "except"
               /\ UNCHANGED <<emails, stats, i>>
    /\ UNCHANGED <<sanitized, pdfState, inputs, inbox, results, is_running, temp_dir, workspace,
                   should_stop, connected, keywords, target_folder, result,
                   attachment_paths>>

\* LoopCheck without the `if self._should_stop: break`
LoopCheck_NoStopCheck ==
    /\ stop_at' = stop_at
    /\ pc = "loop"
    /\ IF i >= Len(emails)
       THEN /\ pc' = "finish"
            /\ result' = result
       ELSE /\ pc' = "enter"
            /\ result' = ProcessingResult(emails[i + 1])
    /\ UNCHANGED <<sanitized, pdfState, inputs, inbox, procState, should_stop, connected,
                   keywords, target_folder, emails, i, attachment_paths, exc,
                   calls, faults>>

\* head of `for i, email in enumerate(emails)` with the cancellation check
LoopCheck ==
    /\ stop_at' = stop_at
    /\ pc = "loop"
    /\ IF i >= Len(emails) \/ should_stop
       THEN /\ pc' = "finish"
            /\ result' = result
       ELSE /\ pc' = "enter"
            /\ result' = ProcessingResult(emails[i + 1])
    /\ UNCHANGED <<sanitized, pdfState, inputs, inbox, procState, should_stop, connected,
                   keywords, target_folder, emails, i, attachment_paths, exc,
                   calls, faults>>

\* UpdateStats that forgets the failed counter
UpdateStats_NoFailed(st, status) ==
    [st EXCEPT !.processed = @ + 1,
               !.success = IF status = SUCCESS THEN @ + 1 ELSE @,
               !.skipped = IF status \notin {SUCCESS, FAILED} THEN @ + 1 ELSE @]

\* the counters updated after one message
UpdateStats(st, status) ==
    [st EXCEPT !.processed = @ + 1,
               !.success = IF status = SUCCESS THEN @ + 1 ELSE @,
               !.failed = IF status = FAILED THEN @ + 1 ELSE @,
               !.skipped = IF status \notin {SUCCESS, FAILED} THEN @ + 1 ELSE @]

\* Record without results.append(result)
Record_NoAppend ==
    /\ stop_at' = stop_at
    /\ pc = "record"
    /\ stats' = UpdateStats(stats, result.status)
    /\ i' = i + 1
    /\ pc' = "loop"
    /\ UNCHANGED <<sanitized, pdfState, inputs, inbox, results, is_running, temp_dir, workspace, should_stop,
                   connected, keywords, target_folder, emails, result,
                   attachment_paths, exc, calls, faults>>

\* results.append(result) and the statistics
Record ==
    /\ stop_at' = stop_at
    /\ pc = "record"
    /\ results' = Append(results, result)
    /\ stats' = UpdateStats(stats, result.status)
    /\ i' = i + 1
    /\ pc' = "loop"
    /\ UNCHANGED <<sanitized, pdfState, inputs, inbox, is_running, temp_dir, workspace, should_stop,
                   connected, keywords, target_folder, emails, result,
                   attachment_paths, exc, calls, faults>>

\* final report after the loop
Finish ==
    /\ stop_at' = stop_at
    /\ pc = "finish"
    /\ pc' = "finally"
    /\ UNCHANGED <<sanitized, pdfState, inputs, inbox, procState, should_stop, connected,
                   locals, calls, faults>>

\* an `except Exception` of process_emails that raises the exception again
Except_Reraise ==
    /\ stop_at' = stop_at
    /\ pc = "except"
    /\ exc' = exc
    /\ pc' = "raised"
    /\ UNCHANGED <<sanitized, pdfState, inputs, inbox, procState, should_stop, connected,
                   keywords, target_folder, emails, i, result, attachment_paths,
                   calls, faults>>

\* `except Exception` of process_emails: logged, not re-raised
Except ==
    /\ stop_at' = stop_at
    /\ pc = "except"
    /\ exc' = None
    /\ pc' = "finally"
    /\ UNCHANGED <<sanitized, pdfState, inputs, inbox, procState, should_stop, connected,
                   keywords, target_folder, emails, i, result, attachment_paths,
                   calls, faults>>

\* `finally`: shutil.rmtree of the workspace (OSError swallowed), the running
\* flag cleared; then `return self.stats`
Finally ==
    /\ stop_at' = stop_at
    /\ pc = "finally"
    /\ \/ /\ workspace' = FALSE
          /\ faults' = faults
       \/ /\ CanFail /\ workspace
          /\ faults' = faults + 1
          /\ workspace' = workspace
    /\ is_running' = FALSE
    /\ pc' = "returned"
    /\ UNCHANGED <<sanitized, pdfState, inputs, inbox, stats, results, temp_dir, should_stop, connected,
                   locals, calls>>

\* ------------------------------------------------ _process_single_email
\* the message being processed
Email == result.email

\* EmailItem.has_attachments
has_attachments(e) == inbox[e].Attachments > 0

\* what the three mutators of EmailItem do to the item when the provider
\* accepts the change
set_category(box, e, cat) == [box EXCEPT ![e].Categories = cat]

mark_as_read(box, e) == [box EXCEPT ![e].UnRead = FALSE]

move_to(box, e, folder) == [box EXCEPT ![e].Folder = "Target"]

\* a checkpoint that returns the result with the status it had
Skipped_KeepsStatus(r, message) == [r EXCEPT !.error_message = message]

\* the result returned at a cancellation checkpoint
Skipped(r, message) == [r EXCEPT !.status = SKIPPED, !.error_message = message]

\* Enter that leaves the status PENDING when the message is started
Enter_NoInProgress ==
    /\ stop_at' = stop_at
    /\ pc = "enter"
    /\ IF should_stop
       THEN /\ result' = Skipped(result, "Traitement interrompu par l'utilisateur")
            /\ pc' = "record"
       ELSE /\ result' = result
            /\ pc' = IF has_attachments(Email) THEN "attach" ELSE "render"
    /\ attachment_paths' = 0
    /\ UNCHANGED <<sanitized, pdfState, inputs, inbox, procState, should_stop, connected,
                   keywords, target_folder, emails, i, exc, calls, faults>>

\* Enter that marks the message read before its checkpoint
Enter_MarksReadFirst ==
    /\ stop_at' = stop_at
    /\ pc = "enter"
    /\ inbox' = mark_as_read(inbox, Email)
    /\ IF should_stop
       THEN /\ result' = Skipped(result, "Traitement interrompu par l'utilisateur")
            /\ pc' = "record"
       ELSE /\ result' = [result EXCEPT !.status = IN_PROGRESS]
            /\ pc' = IF has_attachments(Email) THEN "attach" ELSE "render"
    /\ attachment_paths' = 0
    /\ UNCHANGED <<sanitized, pdfState, inputs, procState, should_stop, connected,
                   keywords, target_folder, emails, i, exc, calls, faults>>

\* Enter whose checkpoint clears the flag once it has skipped the message
Enter_SkipClearsFlag ==
    /\ stop_at' = stop_at
    /\ pc = "enter"
    /\ IF should_stop
       THEN /\ result' = Skipped(result, "Traitement interrompu par l'utilisateur")
            /\ pc' = "record"
       ELSE /\ result' = [result EXCEPT !.status = IN_PROGRESS]
            /\ pc' = IF has_attachments(Email) THEN "attach" ELSE "render"
    /\ should_stop' = FALSE
    /\ attachment_paths' = 0
    /\ UNCHANGED <<sanitized, pdfState, inputs, inbox, procState, connected,
                   keywords, target_folder, emails, i, exc, calls, faults>>

\* entry checkpoint, then status IN_PROGRESS and the attachment test
Enter ==
    /\ stop_at' = stop_at
    /\ pc = "enter"
    /\ IF should_stop
       THEN /\ result' = Skipped(result, "Traitement interrompu par l'utilisateur")
            /\ pc' = "record"
       ELSE /\ result' = [result EXCEPT !.status = IN_PROGRESS]
            /\ pc' = IF has_attachments(Email) THEN "attach" ELSE "render"
    /\ attachment_paths' = 0
    /\ UNCHANGED <<sanitized, pdfState, inputs, inbox, procState, should_stop, connected,
                   keywords, target_folder, emails, i, exc, calls, faults>>

\* EmailItem.save_attachments when the provider fails on attachment k: the
\* `try` encloses the whole loop, so the files saved before k are returned
\* and the loop ends there
saved_files(e, k) == k - 1

\* checkpoint, then EmailItem.save_attachments: a provider failure is
\* swallowed inside it, a filesystem failure (os.makedirs) is raised
SaveAttachments ==
    /\ stop_at' = stop_at
    /\ pc = "attach"
    /\ IF should_stop
       THEN /\ result' = Skipped(result, result.error_message)
            /\ pc' = "record"
            /\ UNCHANGED <<attachment_paths, exc, calls, faults>>
       ELSE /\ result' = result
            /\ \/ /\ attachment_paths' = inbox[Email].Attachments
                  /\ calls' = Append(calls, Call("save_attachments", Email, "", TRUE))
                  /\ pc' = "render"
                  /\ UNCHANGED <<exc, faults>>
               \/ /\ CanFail
                  /\ faults' = faults + 1
                  /\ \E k \in 1..inbox[Email].Attachments :
                         attachment_paths' = saved_files(Email, k)
                  /\ calls' = Append(calls, Call("save_attachments", Email, "com_error", TRUE))
                  /\ pc' = "render"
                  /\ exc' = exc
               \/ /\ CanFail
                  /\ faults' = faults + 1
                  /\ attachment_paths' = 0
                  /\ calls' = Append(calls, Call("save_attachments", Email, "OSError", FALSE))
                  /\ exc' = "Exception"
                  /\ pc' = "failed"
    /\ UNCHANGED <<sanitized, pdfState, inputs, inbox, procState, should_stop, connected,
                   keywords, target_folder, emails, i>>

\* GeneratePdf without the `if self._check_stop()` before the renderer call
GeneratePdf_NoCheckpoint ==
    /\ stop_at' = stop_at
    /\ pc = "render"
    /\ IF ~has_reportlab
       THEN /\ result' = result
            /\ calls' = Append(calls, Call("generate_email_pdf", Email, "", FALSE))
            /\ exc' = "PDFGeneratorError"
            /\ pc' = "failed"
            /\ faults' = faults
       ELSE \/ /\ result' = [result EXCEPT !.pdf_path = "artifact"]
               /\ calls' = Append(calls, Call("generate_email_pdf", Email, "", TRUE))
               /\ pc' = "category"
               /\ UNCHANGED <<exc, faults>>
            \/ /\ CanFail
               /\ faults' = faults + 1
               /\ result' = result
               /\ calls' = Append(calls, Call("generate_email_pdf", Email, "", FALSE))
               /\ exc' = "PDFGeneratorError"
               /\ pc' = "failed"
    /\ UNCHANGED <<sanitized, pdfState, inputs, inbox, procState, should_stop, connected,
                   keywords, target_folder, emails, i, attachment_paths>>

\* checkpoint, then PDFGenerator.generate_email_pdf
GeneratePdf ==
    /\ stop_at' = stop_at
    /\ pc = "render"
    /\ IF should_stop
       THEN /\ result' = Skipped(result, result.error_message)
            /\ pc' = "record"
            /\ UNCHANGED <<exc, calls, faults>>
       ELSE IF ~has_reportlab
       THEN /\ result' = result
            /\ calls' = Append(calls, Call("generate_email_pdf", Email, "", FALSE))
            /\ exc' = "PDFGeneratorError"
            /\ pc' = "failed"
            /\ faults' = faults
       ELSE \/ /\ result' = [result EXCEPT !.pdf_path = "artifact"]
               /\ calls' = Append(calls, Call("generate_email_pdf", Email, "", TRUE))
               /\ pc' = "category"
               /\ UNCHANGED <<exc, faults>>
            \/ /\ CanFail
               /\ faults' = faults + 1
               /\ result' = result
               /\ calls' = Append(calls, Call("generate_email_pdf", Email, "", FALSE))
               /\ exc' = "PDFGeneratorError"
               /\ pc' = "failed"
    /\ UNCHANGED <<sanitized, pdfState, inputs, inbox, procState, should_stop, connected,
                   keywords, target_folder, emails, i, attachment_paths>>

\* SetCategory with the read-state mutation left for after the move
SetCategory_ThenMove ==
    /\ stop_at' = stop_at
    /\ pc = "category"
    /\ IF category = ""
       THEN UNCHANGED <<inbox, calls>>
       ELSE /\ inbox' = set_category(inbox, Email, category)
            /\ calls' = Append(calls, Call("set_category", Email, category, TRUE))
    /\ pc' = "move"
    /\ UNCHANGED <<sanitized, pdfState, inputs, procState, should_stop, connected, faults, exc,
                   keywords, target_folder, emails, i, result, attachment_paths>>

\* `if category: email.set_category(category)`: com_error -> OutlookError
SetCategory ==
    /\ stop_at' = stop_at
    /\ pc = "category"
    /\ IF category = ""
       THEN /\ pc' = "read"
            /\ UNCHANGED <<inbox, calls, exc, faults>>
       ELSE \/ /\ inbox' = set_category(inbox, Email, category)
               /\ calls' = Append(calls, Call("set_category", Email, category, TRUE))
               /\ pc' = "read"
               /\ UNCHANGED <<exc, faults>>
            \/ /\ CanFail
               /\ faults' = faults + 1
               /\ calls' = Append(calls, Call("set_category", Email, category, FALSE))
               /\ exc' = "OutlookError"
               /\ pc' = "failed"
               /\ inbox' = inbox
    /\ UNCHANGED <<sanitized, pdfState, inputs, procState, should_stop, connected,
                   keywords, target_folder, emails, i, result, attachment_paths>>

\* email.mark_as_read(): com_error is logged inside it and not raised
MarkAsRead ==
    /\ stop_at' = stop_at
    /\ pc = "read"
    /\ \/ /\ inbox' = mark_as_read(inbox, Email)
          /\ calls' = Append(calls, Call("mark_as_read", Email, "", TRUE))
          /\ faults' = faults
       \/ /\ CanFail
          /\ faults' = faults + 1
          /\ calls' = Append(calls, Call("mark_as_read", Email, "", FALSE))
          /\ inbox' = inbox
    /\ pc' = "move"
    /\ UNCHANGED <<sanitized, pdfState, inputs, procState, should_stop, connected,
                   locals>>

\* checkpoint, then `if target_folder: email.move_to(target_folder)` (com_error
\* makes move_to return False, which is not looked at) and status SUCCESS
MoveTo ==
    /\ stop_at' = stop_at
    /\ pc = "move"
    /\ IF should_stop
       THEN /\ result' = Skipped(result, result.error_message)
            /\ UNCHANGED <<inbox, calls, faults>>
       ELSE /\ result' = [result EXCEPT !.status = SUCCESS]
            /\ IF target_folder = None
               THEN UNCHANGED <<inbox, calls, faults>>
               ELSE \/ /\ inbox' = move_to(inbox, Email, target_folder)
                       /\ calls' = Append(calls, Call("move_to", Email, "", TRUE))
                       /\ faults' = faults
                    \/ /\ CanFail
                       /\ faults' = faults + 1
                       /\ calls' = Append(calls, Call("move_to", Email, "", FALSE))
                       /\ inbox' = inbox
    /\ pc' = "record"
    /\ UNCHANGED <<sanitized, pdfState, inputs, procState, should_stop, connected,
                   keywords, target_folder, emails, i, attachment_paths, exc>>

\* the message of the three except clauses
ErrorMessage(e) ==
    CASE e = "PDFGeneratorError" -> "Erreur generation PDF"
      [] e = "OutlookError" -> "Erreur Outlook"
      [] OTHER -> "Erreur inattendue"

\* HandleError that lets a failure of the error-category attempt escape
HandleError_Reraise ==
    /\ stop_at' = stop_at
    /\ pc = "failed"
    /\ result' = [result EXCEPT !.status = FAILED, !.error_message = ErrorMessage(exc)]
    /\ \/ /\ inbox' = set_category(inbox, Email, error_category)
          /\ calls' = Append(calls, Call("set_category", Email, error_category, TRUE))
          /\ faults' = faults
          /\ exc' = None
          /\ pc' = "record"
       \/ /\ CanFail
          /\ faults' = faults + 1
          /\ calls' = Append(calls, Call("set_category", Email, error_category, FALSE))
          /\ inbox' = inbox
          /\ exc' = "OutlookError"
          /\ pc' = "except"
    /\ UNCHANGED <<sanitized, pdfState, inputs, procState, should_stop, connected,
                   keywords, target_folder, emails, i, attachment_paths>>

\* HandleError without the error-category attempt
HandleError_NoCategory ==
    /\ stop_at' = stop_at
    /\ pc = "failed"
    /\ result' = [result EXCEPT !.status = FAILED, !.error_message = ErrorMessage(exc)]
    /\ exc' = None
    /\ pc' = "record"
    /\ UNCHANGED <<sanitized, pdfState, inputs, inbox, procState, should_stop, connected, calls, faults,
                   keywords, target_folder, emails, i, attachment_paths>>

\* the except clauses: FAILED, the message, and set_category(error_category)
\* whose own failure is swallowed
HandleError ==
    /\ stop_at' = stop_at
    /\ pc = "failed"
    /\ result' = [result EXCEPT !.status = FAILED, !.error_message = ErrorMessage(exc)]
    /\ \/ /\ inbox' = set_category(inbox, Email, error_category)
          /\ calls' = Append(calls, Call("set_category", Email, error_category, TRUE))
          /\ faults' = faults
       \/ /\ CanFail
          /\ faults' = faults + 1
          /\ calls' = Append(calls, Call("set_category", Email, error_category, FALSE))
          /\ inbox' = inbox
    /\ exc' = None
    /\ pc' = "record"
    /\ UNCHANGED <<sanitized, pdfState, inputs, procState, should_stop, connected,
                   keywords, target_folder, emails, i, attachment_paths>>

Next ==
    \/ Stop
    \/ Start
    \/ ConnectOutlook
    \/ EnsureCategories
    \/ ValidateKeywords
    \/ ResolveFolder
    \/ Search
    \/ LoopCheck
    \/ Enter
    \/ SaveAttachments
    \/ GeneratePdf
    \/ SetCategory
    \/ MarkAsRead
    \/ MoveTo
    \/ HandleError
    \/ Record
    \/ Finish
    \/ Except
    \/ Finally

Spec == Init /\ [][Next]_vars

\* ------------------------------------------------ the parts of the state
\* no run of process_emails was started: what the direct calls below leave alone
NoRun ==
    /\ keywords_str = <<>> /\ category = "" /\ target_folder_path = <<>>
    /\ has_ensure_category = FALSE /\ filter_takes_dates = FALSE
    /\ stats = ProcessingStats /\ results = <<>> /\ is_running = FALSE
    /\ should_stop = FALSE /\ temp_dir = None /\ workspace = FALSE
    /\ pc = "idle" /\ target_folder = None /\ i = 0 /\ result = NoResult
    /\ attachment_paths = 0 /\ exc = None /\ stop_at = <<None, 0>>

run == <<keywords_str, category, target_folder_path, has_ensure_category,
         filter_takes_dates, stats, results, is_running, should_stop, temp_dir,
         workspace, pc, target_folder, i, result, attachment_paths, exc, stop_at>>

\* ---------------------------------- OutlookHandler.filter_emails, called alone
\* "Invoice from ACME", "Facture", "invoice", "ACME", "acme corp", "Voice", "ACT"
InvoiceFromAcme == <<"I", "n", "v", "o", "i", "c", "e", " ", "f", "r", "o", "m", " ",
                     "A", "C", "M", "E">>
Facture == <<"F", "a", "c", "t", "u", "r", "e">>
kwInvoice == <<"i", "n", "v", "o", "i", "c", "e">>
kwACME == <<"A", "C", "M", "E">>
kwAcmeCorp == <<"a", "c", "m", "e", " ", "c", "o", "r", "p">>
kwVoice == <<"V", "o", "i", "c", "e">>
kwACT == <<"A", "C", "T">>

\* item.Subject of the items of the folder (<<>> stands for None and for '')
FilterSubjects == { InvoiceFromAcme, Facture, <<>> }

\* the keyword lists handed to filter_emails
FilterKeywords ==
    { <<>>, <<kwInvoice>>, <<kwACME>>, <<kwAcmeCorp>>, <<kwVoice>>, <<kwACT>>,
      <<kwACT, kwACME>>, <<kwAcmeCorp, kwACT>>, <<kwAcmeCorp, kwVoice>> }

\* olAppointment, the Class of an item that is not a mail
olAppointment == 26

\* stands for the Class of an item whose properties cannot be read: the read
\* raises com_error and the item is passed over, as a non-mail item is
Unreadable == 0

\* the items a folder holds
FilterItems ==
    { [Class |-> c, Subject |-> sub, UnRead |-> u, Attachments |-> 0,
       Categories |-> "", Folder |-> "Inbox"] :
         c \in {olMail, olAppointment, Unreadable}, sub \in FilterSubjects, u \in BOOLEAN }

\* the folders of at most MaxFolder items
MaxFolder == 2
FilterFolders == UNION { [1..n -> FilterItems] : n \in 0..MaxFolder }

InitFilter ==
    /\ NoRun
    /\ inbox \in FilterFolders
    /\ keywords \in FilterKeywords
    /\ unread_only \in BOOLEAN
    /\ connected = TRUE
    /\ emails = <<>>
    /\ calls = <<>>
    /\ faults = 0
    /\ has_reportlab = TRUE
    /\ has_pypdf2 = TRUE /\ output_dir = NoFiles /\ generated = <<>>
    /\ NoMerge
    /\ sanitized = <<>>

\* handler.filter_emails(mailbox_name, keywords, unread_only)
FilterEmails ==
    /\ calls = <<>>
    /\ emails' = filter_emails(inbox, keywords, unread_only, 1)
    /\ calls' = Append(calls, Call("filter_emails", 0, "", TRUE))
    /\ UNCHANGED <<run, inbox, keywords, unread_only, connected, faults,
                   has_reportlab, pdfState, sanitized>>

NextFilter == FilterEmails

SpecFilter == InitFilter /\ [][NextFilter]_vars

\* ------------------------------------------------------ utils/sanitize.py
\* FORBIDDEN_CHARS (sanitize.py:12)
FORBIDDEN_CHARS == {"<", ">", ":", "\"", "/", "\\", "|", "?", "*"}

\* U+00A0, a blank of category Zs, written as a name
NBSP == "nbsp"

\* the characters of category Cc, and the characters \s matches that are not
ControlChars == {"\t", "\n"}
SpaceChars == {" ", NBSP}

\* text.replace(char, '_') for every forbidden character
ReplaceForbidden(text) ==
    [j \in 1..Len(text) |-> IF text[j] \in FORBIDDEN_CHARS THEN "_" ELSE text[j]]

\* ''.join(char for char in text if unicodedata.category(char) != 'Cc')
RECURSIVE RemoveControl(_)
RemoveControl(text) ==
    IF text = <<>> THEN <<>>
    ELSE IF Head(text) \in ControlChars THEN RemoveControl(Tail(text))
    ELSE <<Head(text)>> \o RemoveControl(Tail(text))

\* text without its leading characters of the set chars
RECURSIVE LStrip(_, _)
LStrip(text, chars) ==
    IF text # <<>> /\ Head(text) \in chars THEN LStrip(Tail(text), chars) ELSE text

\* text without its trailing characters of the set chars
RECURSIVE RStrip(_, _)
RStrip(text, chars) ==
    IF text # <<>> /\ text[Len(text)] \in chars
    THEN RStrip(SubSeq(text, 1, Len(text) - 1), chars)
    ELSE text

\* re.sub(r'\s+', ' ', text)
RECURSIVE CollapseSpaces(_)
CollapseSpaces(text) ==
    IF text = <<>> THEN <<>>
    ELSE IF Head(text) \in SpaceChars
         THEN <<" ">> \o CollapseSpaces(LStrip(Tail(text), SpaceChars))
         ELSE <<Head(text)>> \o CollapseSpaces(Tail(text))

\* sanitize_text that strips the ends before it removes the control characters
sanitize_text_StripFirst(text) ==
    IF text = <<>> THEN <<>>
    ELSE CollapseSpaces(RemoveControl(
             RStrip(LStrip(ReplaceForbidden(text), {".", " "}), {".", " "})))

\* sanitize_text(text) with the default replacement '_'
sanitize_text(text) ==
    IF text = <<>> THEN <<>>
    ELSE LET collapsed == CollapseSpaces(RemoveControl(ReplaceForbidden(text)))
         IN  RStrip(LStrip(collapsed, {".", " "}), {".", " "})

\* the texts sanitize_text is applied to: at most MaxText characters
MaxText == 4
SanitizeAlphabet == {"<", "\t", " ", NBSP, ".", "a"}
Texts == UNION { [1..n -> SanitizeAlphabet] : n \in 0..MaxText }

InitSanitize ==
    /\ NoRun
    /\ inbox = <<>> /\ keywords = <<>> /\ unread_only = FALSE
    /\ connected = FALSE /\ emails = <<>> /\ calls = <<>> /\ faults = 0
    /\ has_reportlab = TRUE
    /\ has_pypdf2 = TRUE /\ output_dir = NoFiles /\ generated = <<>>
    /\ NoMerge
    /\ sanitized \in { <<text>> : text \in Texts }

\* sanitize_text applied to the last result; the text, its image and the image
\* of its image are kept
SanitizeText ==
    /\ Len(sanitized) \in {1, 2}
    /\ sanitized' = Append(sanitized, sanitize_text(sanitized[Len(sanitized)]))
    /\ UNCHANGED <<run, inbox, keywords, unread_only, connected, emails, calls, faults,
                   has_reportlab, pdfState>>

NextSanitize == SanitizeText

SpecSanitize == InitSanitize /\ [][NextSanitize]_vars

\* --------------------------------------- sanitize.py: the artifact's name
\* the position of the first / last c in text, 0 when there is none
IndexOf(text, c) ==
    IF \E j \in 1..Len(text) : text[j] = c
    THEN CHOOSE j \in 1..Len(text) : text[j] = c /\ \A n \in 1..(j - 1) : text[n] # c
    ELSE 0

LastIndexOf(text, c) ==
    IF \E j \in 1..Len(text) : text[j] = c
    THEN CHOOSE j \in 1..Len(text) : text[j] = c /\ \A n \in (j + 1)..Len(text) : text[n] # c
    ELSE 0

\* str.upper() on one character, str.upper() and str.capitalize()
UpperChar(c) ==
    IF \E n \in 1..Len(LowerLetters) : LowerLetters[n] = c
    THEN UpperLetters[CHOOSE n \in 1..Len(LowerLetters) : LowerLetters[n] = c]
    ELSE c

Upper(text) == [j \in 1..Len(text) |-> UpperChar(text[j])]

Capitalize(text) ==
    [j \in 1..Len(text) |-> IF j = 1 THEN UpperChar(text[j]) ELSE LowerChar(text[j])]

\* str(n) for n >= 0, and n written with at least `width` digits
DigitChars == <<"0", "1", "2", "3", "4", "5", "6", "7", "8", "9">>

RECURSIVE Decimal(_)
Decimal(n) ==
    IF n < 10 THEN <<DigitChars[n + 1]>>
    ELSE Decimal(n \div 10) \o <<DigitChars[(n % 10) + 1]>>

RECURSIVE ZeroPad(_, _)
ZeroPad(text, width) ==
    IF Len(text) >= width THEN text ELSE ZeroPad(<<"0">> \o text, width)

\* text.replace(old, new)
RECURSIVE Replace(_, _, _)
Replace(text, old, new) ==
    IF Len(text) < Len(old) THEN text
    ELSE IF SubSeq(text, 1, Len(old)) = old
         THEN new \o Replace(SubSeq(text, Len(old) + 1, Len(text)), old, new)
         ELSE <<Head(text)>> \o Replace(Tail(text), old, new)

\* RESERVED_NAMES (sanitize.py:15-19)
RESERVED_NAMES ==
    { <<"C", "O", "N">>, <<"P", "R", "N">>, <<"A", "U", "X">>, <<"N", "U", "L">> }
    \cup { <<"C", "O", "M", DigitChars[d]>> : d \in 2..10 }
    \cup { <<"L", "P", "T", DigitChars[d]>> : d \in 2..10 }

Inconnu == <<"I", "n", "c", "o", "n", "n", "u">>
DotPdf == <<".", "p", "d", "f">>
Complet == <<"_", "c", "o", "m", "p", "l", "e", "t", ".", "p", "d", "f">>
Fichier == <<"f", "i", "c", "h", "i", "e", "r", "_">>

\* max_length of sanitize_filename and the cut of the subject
max_length == 200
subject_length == 50

\* sanitize_filename(filename); `now` is datetime.now() as '%Y%m%d_%H%M%S'
sanitize_filename(filename, now) ==
    IF filename = <<>> THEN Fichier \o now
    ELSE LET dot == LastIndexOf(filename, ".")
             ext == IF dot = 0 THEN <<>>
                    ELSE <<".">> \o sanitize_text(SubSeq(filename, dot + 1, Len(filename)))
             name0 == sanitize_text(IF dot = 0 THEN filename
                                    ELSE SubSeq(filename, 1, dot - 1))
             name1 == IF Upper(name0) \in RESERVED_NAMES
                      THEN <<"_">> \o name0 \o <<"_">> ELSE name0
             room == max_length - Len(ext)
             name2 == IF Len(name1) > room
                      THEN (IF room >= 0 THEN SubSeq(name1, 1, room)
                            ELSE SubSeq(name1, 1, Len(name1) + room))
                      ELSE name1
         IN  (IF name2 = <<>> THEN Fichier \o now ELSE name2) \o ext

\* extract_company_name(email_address)
extract_company_name(email_address) ==
    IF IndexOf(email_address, "@") = 0 THEN Inconnu
    ELSE LET rest == SubSeq(email_address, IndexOf(email_address, "@") + 1,
                            Len(email_address))
             domain == IF IndexOf(rest, "@") = 0 THEN rest
                       ELSE SubSeq(rest, 1, IndexOf(rest, "@") - 1)
             company == IF LastIndexOf(domain, ".") = 0 THEN domain
                        ELSE SubSeq(domain, 1, LastIndexOf(domain, ".") - 1)
         IN  sanitize_text(Capitalize(company))

\* extract_sender_name(sender)
extract_sender_name(sender) ==
    IF sender = <<>> THEN Inconnu
    ELSE IF IndexOf(sender, "<") # 0 /\ IndexOf(sender, ">") # 0
    THEN LET name == Strip(SubSeq(sender, 1, IndexOf(sender, "<") - 1))
             rest == SubSeq(sender, IndexOf(sender, "<") + 1, Len(sender))
             upto == IF IndexOf(rest, "<") = 0 THEN rest
                     ELSE SubSeq(rest, 1, IndexOf(rest, "<") - 1)
             email == IF IndexOf(upto, ">") = 0 THEN upto
                      ELSE SubSeq(upto, 1, IndexOf(upto, ">") - 1)
         IN  IF name # <<>> THEN sanitize_text(name) ELSE extract_company_name(email)
    ELSE IF IndexOf(sender, "@") # 0 THEN extract_company_name(sender)
    ELSE sanitize_text(sender)

\* format_date_for_filename(date_obj): '%Y%m%d'
format_date_for_filename(date_obj) ==
    ZeroPad(Decimal(date_obj.year), 4) \o ZeroPad(Decimal(date_obj.month), 2)
    \o ZeroPad(Decimal(date_obj.day), 2)

\* generate_pdf_filename(sender, date_obj, subject)
generate_pdf_filename(sender, date_obj, subject, now) ==
    LET company == extract_sender_name(sender)
        date_str == format_date_for_filename(date_obj)
        clean == sanitize_text(subject)
        subject_clean == IF Len(clean) > subject_length
                         THEN SubSeq(clean, 1, subject_length) ELSE clean
    IN  sanitize_filename(
            IF subject # <<>>
            THEN company \o <<"_">> \o date_str \o <<"_">> \o subject_clean \o DotPdf
            ELSE company \o <<"_">> \o date_str \o DotPdf,
            now)

\* ------------------------------------- PDFGenerator.generate_email_pdf
\* generate_email_pdf calls made in one run of the generator
MaxPdfs == 3

exists(dir, path) == path \in DOMAIN dir

\* open(path, 'wb') ... write: the file holds what call n wrote
write(dir, path, n) == [f \in DOMAIN dir \cup {path} |-> IF f = path THEN n ELSE dir[f]]

\* os.remove(path)
remove(dir, path) == [f \in DOMAIN dir \ {path} |-> dir[f]]

\* a file opened for writing whose content was not written
Truncated == 0

\* os.path.splitext(path) on a file name: (base, ext)
splitext(path) ==
    LET dot == LastIndexOf(path, ".")
    IN  IF dot <= 1 THEN <<path, <<>>>>
        ELSE <<SubSeq(path, 1, dot - 1), SubSeq(path, dot, Len(path))>>

\* `while os.path.exists(output_path): output_path = f"{base}_{counter}{ext}"`
RECURSIVE FreePath(_, _, _, _, _)
FreePath(dir, output_path, base, ext, counter) ==
    IF exists(dir, output_path)
    THEN FreePath(dir, base \o <<"_">> \o Decimal(counter) \o ext, base, ext, counter + 1)
    ELSE output_path

\* the first free name of the folder for filename
output_path_for(dir, filename) ==
    FreePath(dir, filename, splitext(filename)[1], splitext(filename)[2], 1)

\* the messages generate_email_pdf is called for: `sender_name or sender`,
\* received_time, subject and the saved attachments (their extensions).  "Co"
\* and "x@co.fr" give the same company name; the subject "a.pdf" names a file.
PdfMessage(sender, subject, attachments) ==
    [sender |-> sender, received_time |-> [year |-> 2024, month |-> 1, day |-> 2],
     subject |-> subject, attachment_paths |-> attachments]

PdfMessages ==
    { PdfMessage(<<"C", "o">>, <<"F", ":", "1">>, <<>>),
      PdfMessage(<<"C", "o">>, <<"F", ":", "1">>, <<".pdf">>),
      PdfMessage(<<"x", "@", "c", "o", ".", "f", "r">>, <<"F", ":", "1">>, <<".pdf">>),
      PdfMessage(<<"C", "o">>, <<"a", ".", "p", "d", "f">>, <<".pdf">>),
      PdfMessage(<<"C", "o">>, <<>>, <<>>) }

\* datetime.now() of the calls, as '%Y%m%d_%H%M%S'
Now == <<"2", "0", "2", "4", "0", "1", "0", "3", "_", "0", "0", "0", "0", "0", "0">>

PDFGeneratorError == "PDFGeneratorError"

\* one record of `generated`: the message and what the call returned
Generated(m, path) ==
    [sender |-> m.sender, received_time |-> m.received_time, subject |-> m.subject,
     attachment_paths |-> m.attachment_paths, path |-> path]

InitPdf ==
    /\ NoRun
    /\ inbox = <<>> /\ keywords = <<>> /\ unread_only = FALSE
    /\ connected = FALSE /\ emails = <<>> /\ calls = <<>> /\ faults = 0
    /\ has_reportlab \in BOOLEAN
    /\ has_pypdf2 \in BOOLEAN
    /\ output_dir = NoFiles
    /\ generated = <<>>
    /\ NoMerge
    /\ sanitized = <<>>

\* generate_email_pdf(sender, sender_name, subject, body, received_time,
\* attachment_paths), with _create_email_pdf and _merge_with_attachments
GenerateEmailPdf ==
    /\ Len(generated) < MaxPdfs
    /\ \E m \in PdfMessages :
          LET n == Len(generated) + 1
              attachments == m.attachment_paths
              filename == generate_pdf_filename(m.sender, m.received_time, m.subject, Now)
              output_path == output_path_for(output_dir, filename)
              merged_path == Replace(output_path, DotPdf, Complet)
              created == write(output_dir, output_path, n)
              returns(path) ==
                  generated' = Append(generated, Generated(m, path))
          IN  IF ~has_reportlab
              THEN /\ returns(PDFGeneratorError)
                   /\ UNCHANGED <<output_dir, faults>>
              ELSE \/ \* _create_email_pdf raises; the file may have been created
                      /\ CanFail
                      /\ faults' = faults + 1
                      /\ output_dir' \in {output_dir, write(output_dir, output_path, Truncated)}
                      /\ returns(PDFGeneratorError)
                   \/ \* no attachment, or no PyPDF2: the primary document
                      /\ attachments = <<>> \/ ~has_pypdf2
                      /\ output_dir' = created
                      /\ returns(output_path)
                      /\ faults' = faults
                   \/ \* merged, the primary document removed
                      /\ attachments # <<>> /\ has_pypdf2
                      /\ output_dir' = IF merged_path # output_path
                                       THEN remove(write(created, merged_path, n), output_path)
                                       ELSE write(created, merged_path, n)
                      /\ returns(merged_path)
                      /\ faults' = faults
                   \/ \* merged, os.remove of the primary document raises OSError
                      /\ attachments # <<>> /\ has_pypdf2
                      /\ merged_path # output_path
                      /\ CanFail
                      /\ faults' = faults + 1
                      /\ output_dir' = write(created, merged_path, n)
                      /\ returns(merged_path)
                   \/ \* writing the merged document fails after open()
                      /\ attachments # <<>> /\ has_pypdf2
                      /\ CanFail
                      /\ faults' = faults + 1
                      /\ output_dir' = IF merged_path # output_path
                                       THEN write(created, merged_path, Truncated)
                                       ELSE write(output_dir, output_path, Truncated)
                      /\ returns(output_path)
    /\ UNCHANGED <<run, inbox, keywords, unread_only, connected, emails, calls,
                   has_reportlab, has_pypdf2, mergeState, sanitized>>

NextPdf == GenerateEmailPdf

SpecPdf == InitPdf /\ [][NextPdf]_vars

\* --------------------------- PDFGenerator._word_to_pdf and _excel_to_pdf
\* office conversions made in one run of SpecOffice
MaxConversions == 2

\* what one conversion does before its `finally`, in the order of the code:
\* tempfile.mkstemp, Dispatch of the application, Visible/DisplayAlerts,
\* Documents.Open or Workbooks.Open, ExportAsFixedFormat
ConversionSteps == <<"mkstemp", "Dispatch", "Visible", "Open", "ExportAsFixedFormat">>

\* the course of one conversion: the step that raises (0: none) and what it
\* raises, and whether Close and Quit raise in the `finally`
Scenario(fail_at, error, close_fails, quit_fails) ==
    [fail_at |-> fail_at, error |-> error, close_fails |-> close_fails,
     quit_fails |-> quit_fails]

\* mkstemp raises OSError and no com_error; Close and Quit are only called on
\* what was opened
Scenarios ==
    { sc \in { Scenario(f, e, c, q) : f \in 0..Len(ConversionSteps),
                                      e \in {None, "com_error", "Exception"},
                                      c \in BOOLEAN, q \in BOOLEAN } :
        /\ sc.fail_at = 0 <=> sc.error = None
        /\ sc.fail_at = 1 => sc.error = "Exception"
        /\ sc.close_fails => sc.fail_at \in {0, 5}
        /\ sc.quit_fails => sc.fail_at \in {0, 3, 4, 5} }

\* a conversion in which nothing raises, and one in which the export raises
Converts == Scenario(0, None, FALSE, FALSE)
ExportFails == Scenario(5, "com_error", FALSE, FALSE)

\* one call made on the office application, the document or the filesystem
ComCall(op, ok) == [op |-> op, ok |-> ok]

\* what a conversion returned or raised, and the calls it made
Conversion(ret, raised, log) == [ret |-> ret, raised |-> raised, log |-> log]

\* the `finally` with doc.Close(False) outside a `try`: its failure leaves the
\* block at once
Teardown_CloseUnguarded(doc, app, sc) ==
    IF doc /\ sc.close_fails
    THEN [log |-> <<ComCall("Close", FALSE)>>, raised |-> "com_error"]
    ELSE [log |-> (IF doc THEN <<ComCall("Close", TRUE)>> ELSE <<>>)
                  \o (IF app THEN <<ComCall("Quit", ~sc.quit_fails)>> ELSE <<>>),
          raised |-> None]

\* the `finally` of both conversions: Close of the document if one was opened,
\* then Quit of the application if one was started, each in its own
\* `try: ... except: pass`
Teardown(doc, app, sc) ==
    [log |-> (IF doc THEN <<ComCall("Close", ~sc.close_fails)>> ELSE <<>>)
             \o (IF app THEN <<ComCall("Quit", ~sc.quit_fails)>> ELSE <<>>),
     raised |-> None]

\* the body shared by _word_to_pdf and _excel_to_pdf: the steps up to the one
\* that raises, the handler of com_error (which removes the temporary file),
\* the `finally`
convert_with_office(sc) ==
    IF ~has_win32com THEN Conversion(None, None, <<>>)
    ELSE LET n == IF sc.fail_at = 0 THEN Len(ConversionSteps) ELSE sc.fail_at - 1
             tried == [k \in 1..n |-> ComCall(ConversionSteps[k], TRUE)]
                      \o (IF sc.fail_at = 0 THEN <<>>
                          ELSE <<ComCall(ConversionSteps[sc.fail_at], FALSE)>>)
             app == n >= 2
             doc == n >= 4
             handler == IF sc.error = "com_error"
                        THEN <<ComCall("os.remove", TRUE)>> ELSE <<>>
             finally == Teardown(doc, app, sc)
         IN  Conversion(IF sc.fail_at = 0 /\ finally.raised = None
                        THEN "temp_path" ELSE None,
                        finally.raised,
                        tried \o handler \o finally.log)

word_to_pdf(sc) == convert_with_office(sc)

excel_to_pdf(sc) == convert_with_office(sc)

InitOffice ==
    /\ NoRun
    /\ inbox = <<>> /\ keywords = <<>> /\ unread_only = FALSE
    /\ connected = FALSE /\ emails = <<>> /\ calls = <<>> /\ faults = 0
    /\ has_reportlab = TRUE
    /\ has_pypdf2 = TRUE /\ output_dir = NoFiles /\ generated = <<>>
    /\ has_win32com \in BOOLEAN /\ merged = <<>> /\ office = <<>>
    /\ sanitized = <<>>

OfficeFrame ==
    UNCHANGED <<run, inbox, keywords, unread_only, connected, emails, calls, faults,
                has_reportlab, has_pypdf2, output_dir, generated, has_win32com,
                merged, sanitized>>

\* one call of _word_to_pdf
WordToPdf ==
    /\ Len(office) < MaxConversions
    /\ \E sc \in Scenarios :
          office' = Append(office, [call |-> "_word_to_pdf", scenario |-> sc,
                                    outcome |-> word_to_pdf(sc)])
    /\ OfficeFrame

\* one call of _excel_to_pdf
ExcelToPdf ==
    /\ Len(office) < MaxConversions
    /\ \E sc \in Scenarios :
          office' = Append(office, [call |-> "_excel_to_pdf", scenario |-> sc,
                                    outcome |-> excel_to_pdf(sc)])
    /\ OfficeFrame

NextOffice == WordToPdf \/ ExcelToPdf

SpecOffice == InitOffice /\ [][NextOffice]_vars

\* ---------------------------------- PDFGenerator._merge_with_attachments
\* attachments handed to one _merge_with_attachments call
MaxAtt == 2

\* the class attributes of PDFGenerator (pdf_generator.py:22-26)
SUPPORTED_IMAGE_EXTENSIONS ==
    { <<".", "p", "n", "g">>,
      <<".", "j", "p", "g">>,
      <<".", "j", "p", "e", "g">>,
      <<".", "g", "i", "f">>,
      <<".", "b", "m", "p">>,
      <<".", "t", "i", "f", "f">>,
      <<".", "w", "e", "b", "p">> }

SUPPORTED_PDF_EXTENSION == DotPdf

SUPPORTED_TEXT_EXTENSIONS == { <<".", "t", "x", "t">>, <<".", "c", "s", "v">>, <<".", "l", "o", "g">> }

SUPPORTED_WORD_EXTENSIONS == { <<".", "d", "o", "c">>, <<".", "d", "o", "c", "x">> }

SUPPORTED_EXCEL_EXTENSIONS == { <<".", "x", "l", "s">>, <<".", "x", "l", "s", "x">> }

\* a saved attachment: os.path.splitext(att_path)[1], whether the file is
\* there, and whether it can be read (PdfMerger.append of it, or its
\* conversion, raises or gives nothing when it cannot)
File(ext, there, sound) == [ext |-> ext, exists |-> there, sound |-> sound]

MergeFiles ==
    { File(DotPdf, TRUE, TRUE), File(<<".", "P", "D", "F">>, TRUE, TRUE),
      File(DotPdf, TRUE, FALSE), File(DotPdf, FALSE, TRUE),
      File(<<".", "p", "n", "g">>, TRUE, TRUE),
      File(<<".", "d", "o", "c", "x">>, TRUE, TRUE), File(<<".", "d", "o", "c">>, TRUE, FALSE),
      File(<<".", "x", "l", "s", "x">>, TRUE, TRUE),
      File(<<".", "t", "x", "t">>, TRUE, TRUE), File(<<".", "l", "o", "g">>, TRUE, FALSE),
      File(<<".", "z", "i", "p">>, TRUE, TRUE), File(<<>>, TRUE, TRUE) }

AttachmentLists == UNION { [1..n -> MergeFiles] : n \in 0..MaxAtt }

\* the primary document handed to the call, "a.pdf"
EmailPdf == <<"a", ".", "p", "d", "f">>

\* one document appended to the merger: the primary document (att = 0), an
\* attachment as it is, or the conversion of an attachment
Part(att, converted) == [att |-> att, converted |-> converted]

\* _text_to_pdf(text_path)
text_to_pdf(att) ==
    IF ~has_reportlab THEN None
    ELSE IF att.sound THEN "temp_path" ELSE None

\* the loop body with the image branch calling _image_to_pdf
Appended_ImagesConverted(att, j) ==
    LET ext == Lower(att.ext)
    IN  IF ~att.exists THEN <<>>
        ELSE IF ext = SUPPORTED_PDF_EXTENSION
        THEN IF att.sound THEN <<Part(j, FALSE)>> ELSE <<>>
        ELSE IF ext \in SUPPORTED_IMAGE_EXTENSIONS
        THEN IF att.sound THEN <<Part(j, TRUE)>> ELSE <<>>
        ELSE IF ext \in SUPPORTED_WORD_EXTENSIONS /\ has_win32com
        THEN IF word_to_pdf(IF att.sound THEN Converts ELSE ExportFails).ret # None
             THEN <<Part(j, TRUE)>> ELSE <<>>
        ELSE IF ext \in SUPPORTED_EXCEL_EXTENSIONS /\ has_win32com
        THEN IF excel_to_pdf(IF att.sound THEN Converts ELSE ExportFails).ret # None
             THEN <<Part(j, TRUE)>> ELSE <<>>
        ELSE IF ext \in SUPPORTED_TEXT_EXTENSIONS
        THEN IF text_to_pdf(att) # None THEN <<Part(j, TRUE)>> ELSE <<>>
        ELSE <<>>

\* what the loop body appends to the merger for the j-th attachment: the
\* dispatch on the lower-cased extension, inside `try ... except Exception`
Appended(att, j) ==
    LET ext == Lower(att.ext)
    IN  IF ~att.exists THEN <<>>
        ELSE IF ext = SUPPORTED_PDF_EXTENSION
        THEN IF att.sound THEN <<Part(j, FALSE)>> ELSE <<>>
        ELSE IF ext \in SUPPORTED_IMAGE_EXTENSIONS
        THEN <<>>
        ELSE IF ext \in SUPPORTED_WORD_EXTENSIONS /\ has_win32com
        THEN IF word_to_pdf(IF att.sound THEN Converts ELSE ExportFails).ret # None
             THEN <<Part(j, TRUE)>> ELSE <<>>
        ELSE IF ext \in SUPPORTED_EXCEL_EXTENSIONS /\ has_win32com
        THEN IF excel_to_pdf(IF att.sound THEN Converts ELSE ExportFails).ret # None
             THEN <<Part(j, TRUE)>> ELSE <<>>
        ELSE IF ext \in SUPPORTED_TEXT_EXTENSIONS
        THEN IF text_to_pdf(att) # None THEN <<Part(j, TRUE)>> ELSE <<>>
        ELSE <<>>

\* `for att_path in attachment_paths`, from the j-th attachment on
RECURSIVE MergeLoop(_, _)
MergeLoop(paths, j) ==
    IF j > Len(paths) THEN <<>>
    ELSE Appended(paths[j], j) \o MergeLoop(paths, j + 1)

\* the call and its result: what it returned (or the exception it raised),
\* what it wrote to the merged document, the conversions left in the
\* temporary folder
Merged(paths, returned, content, temp_files) ==
    [email_pdf_path |-> EmailPdf, attachment_paths |-> paths, returned |-> returned,
     content |-> content, temp_files |-> temp_files]

InitMerge ==
    /\ NoRun
    /\ inbox = <<>> /\ keywords = <<>> /\ unread_only = FALSE
    /\ connected = FALSE /\ emails = <<>> /\ calls = <<>> /\ faults = 0
    /\ has_reportlab \in BOOLEAN
    /\ has_pypdf2 \in BOOLEAN
    /\ output_dir = write(NoFiles, EmailPdf, 1)
    /\ generated = <<>>
    /\ has_win32com \in BOOLEAN /\ merged = <<>> /\ office = <<>>
    /\ sanitized = <<>>

\* _merge_with_attachments(email_pdf_path, attachment_paths)
MergeWithAttachments ==
    /\ Len(merged) = 0
    /\ \E paths \in AttachmentLists :
          LET content == <<Part(0, FALSE)>> \o MergeLoop(paths, 1)
              temp_files == { content[p].att : p \in { q \in 1..Len(content) :
                                                        content[q].converted } }
              output_path == Replace(EmailPdf, DotPdf, Complet)
          IN  IF ~has_pypdf2
              THEN /\ merged' = <<Merged(paths, EmailPdf, <<>>, {})>>
                   /\ UNCHANGED <<output_dir, faults>>
              ELSE \/ \* merger.append(email_pdf_path) raises
                      /\ CanFail
                      /\ faults' = faults + 1
                      /\ merged' = <<Merged(paths, "Exception", <<>>, {})>>
                      /\ output_dir' = output_dir
                   \/ \* written; the conversions are removed
                      /\ merged' = <<Merged(paths, output_path, content, {})>>
                      /\ output_dir' = write(output_dir, output_path, 2)
                      /\ faults' = faults
                   \/ \* open() or merger.write raises
                      /\ CanFail
                      /\ faults' = faults + 1
                      /\ merged' = <<Merged(paths, EmailPdf, <<>>, temp_files)>>
                      /\ output_dir' \in {output_dir, write(output_dir, output_path, Truncated)}
    /\ UNCHANGED <<run, inbox, keywords, unread_only, connected, emails, calls,
                   has_reportlab, has_pypdf2, generated, has_win32com, office,
                   sanitized>>

NextMerge == MergeWithAttachments

SpecMerge == InitMerge /\ [][NextMerge]_vars

\* ================================================================ claims
\* helpers of the claims
CallIdx == 1..Len(calls)

\* the inbox as it was when the run started
InitialInbox == [j \in 1..Len(inbox) |-> NewItem(j)]

\* the messages a search with the run's filters finds in that inbox
Matching == filter_emails(InitialInbox, validate_keywords(keywords_str), unread_only, 1)

Returned == pc = "returned"

\* a call of op on message e was made before position j of the log
AttemptedBefore(op, e, j) ==
    \E a \in 1..(j - 1) : calls[a].op = op /\ calls[a].email = e

C2_TotalIsSearchCount ==
    ( /\ Returned
      /\ connected
      /\ validate_keywords(keywords_str) # <<>>
      /\ faults = 0 )
    => /\ stats.total = Len(Matching)
       /\ stats.processed + (Len(emails) - Len(results)) = stats.total
       /\ Len(Matching) >= 1 =>
             \E j \in CallIdx : calls[j].op = "filter_emails" /\ calls[j].ok

\* C3: a batch that returns without a cancellation request has
\* success + failed = processed = total and nothing counted as skipped.
C3_CompletedCounts ==
    (Returned /\ ~should_stop) =>
        /\ stats.success + stats.failed = stats.processed
        /\ stats.processed = stats.total
        /\ stats.skipped = 0

\* C3 witness: such a batch with a success and a failure
C3_Witness ==
    /\ Returned /\ ~should_stop
    /\ stats.total >= 2 /\ stats.success >= 1 /\ stats.failed >= 1

\* C4 (as claimed): once a run has returned, completed or cancelled mid-way
\* (after at least one message), stats.total = len(results); and
\* processed <= total in every state.
C4_TotalIsResultCount ==
    /\ (Returned /\ (~should_stop \/ Len(results) >= 1)) => stats.total = Len(results)
    /\ stats.processed <= stats.total

\* C4 (amended): once a run has returned, len(results) = stats.processed; it is
\* stats.total as well when no cancellation was requested; after a cancellation
\* len(results) = processed <= total; and processed <= total in every state.
C4_ResultCountIsProcessed ==
    /\ Returned => /\ Len(results) = stats.processed
                   /\ ~should_stop => stats.total = Len(results)
    /\ stats.processed <= stats.total

\* C4 witness: a run cancelled mid-way, with fewer results than total
C4_Witness ==
    /\ Returned /\ should_stop
    /\ Len(results) >= 1 /\ Len(results) < stats.total

\* the calls made on message e
CallsOn(e) == { j \in CallIdx : calls[j].email = e }

\* message e was never visited: no result, no call on it, the item as it was
Unvisited(e) ==
    /\ \A k \in 1..Len(results) : results[k].email # e
    /\ CallsOn(e) = {}
    /\ inbox[e] = NewItem(e)

\* C5: if stop() is called when message k has been recorded and message k+1
\* has not been started, the run returns k results, total = N, processed = k,
\* nothing skipped, and messages k+1..N unvisited.
C5_CancelBetweenMessages ==
    (Returned /\ should_stop /\ stop_at[1] = "loop") =>
        LET k == stop_at[2] IN
        /\ Len(results) = k
        /\ stats.total = Len(Matching) /\ Len(emails) = Len(Matching)
        /\ stats.processed = k
        /\ stats.skipped = 0
        /\ \A j \in (k + 1)..Len(emails) : Unvisited(emails[j])

\* C5 witness: 3 matching messages, stop() after the first
C5_Witness ==
    /\ Returned /\ should_stop /\ stop_at = <<"loop", 1>>
    /\ Len(emails) = 3

\* the keyword string holds no keyword
NoKeyword == \A j \in 1..Len(keywords_str) : keywords_str[j] \in {",", " "}

\* C6: with a keyword string that holds no keyword, filter_emails is never
\* invoked, and at return the counters are all 0 and the result log is empty.
C6_EmptyKeywordsNoSearch ==
    NoKeyword =>
        /\ \A j \in CallIdx : calls[j].op # "filter_emails"
        /\ Returned => stats = ProcessingStats /\ results = <<>>

\* C6 witness: a run with the string " ," returned after keyword parsing
C6_Witness ==
    /\ Returned /\ keywords_str = <<" ", ",">>
    /\ \E j \in CallIdx : calls[j].op = "ensure_category_exists" /\ calls[j].ok
    /\ faults = 0

\* the destination path was given and does not resolve
Unresolved ==
    /\ target_folder_path # <<>>
    /\ get_folder_by_path(target_folder_path) = "OutlookError"

\* some call on message e failed
FailedCallOn(e) == \E j \in CallsOn(e) : ~calls[j].ok

\* the result of message e, recorded or in progress
ResultsOf(e) ==
    { results[k] : k \in { n \in 1..Len(results) : results[n].email = e } }
    \cup (IF result.email = e THEN {result} ELSE {})

\* C7: with an unresolvable destination path the batch goes on, no move_to is
\* ever invoked and every message without a failed step and without
\* cancellation is SUCCESS with an artifact path; in general move_to is invoked
\* at most once per message, only with a resolved folder, and only on a message
\* that passed the pre-move checkpoint (its result is SUCCESS, not SKIPPED).
C7_UnresolvedFolderNoMove ==
    /\ Unresolved =>
          /\ \A j \in CallIdx : calls[j].op # "move_to"
          /\ \A k \in 1..Len(results) :
                (results[k].status # SKIPPED /\ ~FailedCallOn(results[k].email))
                => (results[k].status = SUCCESS /\ results[k].pdf_path # None)
          /\ ( /\ Returned /\ ~should_stop /\ faults = 0
               /\ has_ensure_category /\ filter_takes_dates /\ ~NoKeyword )
             => Len(results) = Len(Matching)
    /\ \A j \in CallIdx :
          calls[j].op = "move_to" =>
             /\ target_folder # None
             /\ \A a \in CallIdx :
                   (calls[a].op = "move_to" /\ calls[a].email = calls[j].email) => a = j
             /\ \E r \in ResultsOf(calls[j].email) : r.status = SUCCESS

\* C7 witness: unresolvable path, two messages done, both SUCCESS with artifact
C7_Witness ==
    /\ Unresolved /\ Returned
    /\ Len(results) >= 2
    /\ \A k \in 1..Len(results) :
          results[k].status = SUCCESS /\ results[k].pdf_path # None

\* message e was not marked read and not moved
NotReadNotMoved(e) ==
    /\ \A j \in CallsOn(e) : calls[j].op \notin {"mark_as_read", "move_to"}
    /\ inbox[e].UnRead = NewItem(e).UnRead
    /\ inbox[e].Folder = "Inbox"

\* C8 (as claimed): with the renderer unavailable every visited message is
\* FAILED with an error message and carries the error category, none is marked
\* read or moved, and failed = total when the run was not cancelled.
C8_RendererUnavailableAllFailed ==
    ~has_reportlab =>
        /\ \A k \in 1..Len(results) :
              /\ results[k].status = FAILED
              /\ results[k].error_message # None
              /\ inbox[results[k].email].Categories = error_category
              /\ NotReadNotMoved(results[k].email)
        /\ (Returned /\ ~should_stop) => stats.failed = stats.total

\* C8 (amended): with the renderer unavailable every visited message is FAILED
\* with an error message, unless a cancellation made it the last, SKIPPED,
\* result; set_category('Erreur traitement') is attempted on every FAILED
\* message and takes effect unless the provider rejects it; none is marked read
\* or moved; and failed = total when the run was not cancelled.
C8_RendererUnavailableFailedOrSkipped ==
    ~has_reportlab =>
        /\ \A k \in 1..Len(results) :
              /\ \/ /\ results[k].status = FAILED
                    /\ results[k].error_message # None
                    /\ \E j \in CallsOn(results[k].email) :
                          /\ calls[j].op = "set_category"
                          /\ calls[j].arg = error_category
                          /\ calls[j].ok =>
                                inbox[results[k].email].Categories = error_category
                 \/ /\ results[k].status = SKIPPED
                    /\ should_stop
                    /\ k = Len(results)
              /\ NotReadNotMoved(results[k].email)
        /\ (Returned /\ ~should_stop) => stats.failed = stats.total

\* C8 witness: renderer unavailable, two messages, both FAILED and tagged
C8_Witness ==
    /\ ~has_reportlab /\ Returned /\ ~should_stop
    /\ stats.total >= 2 /\ stats.failed = stats.total
    /\ \A k \in 1..Len(results) :
          inbox[results[k].email].Categories = error_category

\* a step of message e raised: makedirs in save_attachments, the renderer, or
\* set_category(success category)
RaisedOn(e) ==
    \E j \in CallsOn(e) :
        /\ ~calls[j].ok
        /\ \/ calls[j].op \in {"save_attachments", "generate_email_pdf"}
           \/ calls[j].op = "set_category" /\ calls[j].arg # error_category

\* the error-category attempt on message e failed
ErrorTagFailedOn(e) ==
    \E j \in CallsOn(e) :
        calls[j].op = "set_category" /\ calls[j].arg = error_category /\ ~calls[j].ok

\* C9: a failure raised inside the per-message sequence gives a FAILED result
\* with an error message and an error-category attempt after it; a failure of
\* that attempt leaves the result as it is; nothing reaches the except clause
\* of the batch, which goes on to the next message.
C9_FailureIsolation ==
    /\ \A k \in 1..Len(results) :
          LET e == results[k].email IN
          /\ RaisedOn(e) =>
                /\ results[k].status = FAILED
                /\ results[k].error_message # None
                /\ \E a, b \in CallsOn(e) :
                      /\ a < b /\ ~calls[a].ok
                      /\ calls[b].op = "set_category" /\ calls[b].arg = error_category
          /\ ErrorTagFailedOn(e) =>
                results[k].status = FAILED /\ results[k].error_message # None
    /\ pc = "except" => emails = <<>>
    /\ pc = "failed" => exc \in {"PDFGeneratorError", "OutlookError", "Exception"}
    /\ (Returned /\ ~should_stop) => Len(results) = Len(emails)

\* C9 witness: the first message failed and its error tagging failed too, and
\* a second message was processed after it
C9_Witness ==
    /\ Len(results) >= 2
    /\ RaisedOn(results[1].email) /\ ErrorTagFailedOn(results[1].email)
    /\ results[1].status = FAILED

\* C10: every message reported SUCCESS had its success category set, was
\* marked read and (with a resolved folder) was moved, and none of its three
\* mutators met a provider failure.
C10_MutatorFailureIsFatal ==
    \A k \in 1..Len(results) :
        LET e == results[k].email IN
        results[k].status = SUCCESS =>
            /\ \A j \in CallsOn(e) :
                  calls[j].op \in {"set_category", "mark_as_read", "move_to"}
                  => calls[j].ok
            /\ category # "" => inbox[e].Categories = category
            /\ inbox[e].UnRead = FALSE
            /\ target_folder # None => inbox[e].Folder = "Target"

\* process_emails has been left: by `return self.stats`, or by the exception
\* of tempfile.mkdtemp
Left == pc \in {"returned", "raised"}

\* C11: on every path out of process_emails (the failure to allocate the
\* workspace included) is_running is false afterwards, is_running is true only
\* while a run is in progress, and the workspace is gone unless its deletion
\* failed.
C11_FlagClearedOnEveryExit ==
    /\ Left => ~is_running
    /\ is_running => pc \notin {"idle", "returned", "raised"}
    /\ (Left /\ faults = 0) => ~workspace

\* the connect step of the run failed
ConnectFailed == \E j \in CallIdx : calls[j].op = "connect" /\ ~calls[j].ok

\* C12: a failure of the connect step is raised to the caller instead of
\* returning a stats object, and no per-message work was done before it.
C12_ConnectFailureRaised ==
    ConnectFailed =>
        /\ pc # "returned"
        /\ results = <<>> /\ emails = <<>>
        /\ \A j \in CallIdx : calls[j].email = 0

\* the steps of a message that stand behind a cancellation checkpoint
Checkpointed == {"save_attachments", "generate_email_pdf", "move_to"}

\* C13: once stop() has set the flag during a run it stays set; from then on
\* no message is started, the message in progress is given up at its next
\* checkpoint, and no attachment save, render or move is called; stop() itself
\* changes nothing but the flag, so the step in flight runs to its end.
C13_StopTakesEffectAtCheckpoint ==
    [][ /\ (should_stop /\ pc # "idle") => should_stop'
        /\ should_stop =>
              /\ pc = "loop" => pc' = "finish"
              /\ pc \in {"enter", "attach", "render", "move"} =>
                    (result'.status = SKIPPED /\ pc' = "record")
              /\ \A j \in (Len(calls) + 1)..Len(calls') :
                    calls'[j].op \notin Checkpointed
        /\ (should_stop' /\ ~should_stop) =>
              UNCHANGED <<pc, locals, calls, inbox, procState, connected>>
      ]_vars

\* C13 witness: stop() arrived after the attachments of a message had been
\* saved; the message was given up before rendering and the run returned with
\* messages left unvisited
C13_Witness ==
    /\ Returned /\ stop_at[1] = "render"
    /\ Len(results) >= 1 /\ Len(results) < Len(emails)
    /\ results[Len(results)].status = SKIPPED
    /\ \E j \in CallsOn(results[Len(results)].email) :
          calls[j].op = "save_attachments"

\* the result was given up at the checkpoint before the move: the only
\* checkpoint behind the renderer, so the only SKIPPED result with an artifact
SkippedBeforeMove(r) == r.status = SKIPPED /\ r.pdf_path # None

\* C14: a message given up at the checkpoint before the move is SKIPPED, was
\* not moved, has its artifact path recorded, and carries the success category
\* and the read flag.
C14_SkippedBeforeMoveIsTaggedAndRead ==
    \A k \in 1..Len(results) :
        LET e == results[k].email IN
        SkippedBeforeMove(results[k]) =>
            /\ \A j \in CallsOn(e) : calls[j].op # "move_to"
            /\ inbox[e].Folder = "Inbox"
            /\ inbox[e].Categories = category
            /\ inbox[e].UnRead = FALSE

Terminal == {SUCCESS, FAILED, SKIPPED}

\* results already recorded stay as they are, a recorded result is terminal,
\* and no message has two results
RecordedResultsFinal ==
    /\ \A k \in 1..Len(results) : Len(results') >= k /\ results'[k] = results[k]
    /\ \A k \in 1..Len(results') : results'[k].status \in Terminal
    /\ \A a, b \in 1..Len(results') :
          results'[a].email = results'[b].email => a = b

\* C15 (as claimed): the status of a message's result moves only
\* PENDING -> IN_PROGRESS -> {SUCCESS, FAILED, SKIPPED}; recorded results never
\* change and no message is processed twice.
C15_StatusOnlyForward ==
    [][ /\ (result'.email = result.email /\ result'.status # result.status) =>
              \/ result.status = PENDING /\ result'.status = IN_PROGRESS
              \/ result.status = IN_PROGRESS /\ result'.status \in Terminal
        /\ RecordedResultsFinal
      ]_vars

\* C15 (amended): as above, except that a cancellation seen at the entry
\* checkpoint takes the result from PENDING straight to SKIPPED.
C15_StatusForwardOrEarlySkip ==
    [][ /\ (result'.email = result.email /\ result'.status # result.status) =>
              \/ result.status = PENDING /\ result'.status = IN_PROGRESS
              \/ result.status = IN_PROGRESS /\ result'.status \in Terminal
              \/ /\ result.status = PENDING /\ result'.status = SKIPPED
                 /\ pc = "enter" /\ should_stop
        /\ (pc = "record" /\ pc' = "loop") =>
              (Len(results') = Len(results) + 1 /\ results'[Len(results')] = result)
        /\ RecordedResultsFinal
      ]_vars

\* C15 witness: one message went PENDING -> IN_PROGRESS -> SUCCESS and the
\* next one was skipped at the entry checkpoint
C15_Witness ==
    /\ Len(results) = 2
    /\ results[1].status = SUCCESS
    /\ results[2].status = SKIPPED
    /\ results[2].error_message = "Traitement interrompu par l'utilisateur"

\* C16: in a run in which connect succeeded and the provider failed nowhere,
\* ensure_category_exists completed for 'Erreur traitement' and for the given
\* success category, once per tag, before any set_category, and the run went
\* on to the search.
C16_CategoriesEnsuredFirst ==
    (Returned /\ connected /\ faults = 0) =>
        /\ \A tag \in {error_category} \cup ({category} \ {""}) :
              Cardinality({ j \in CallIdx : /\ calls[j].op = "ensure_category_exists"
                                             /\ calls[j].arg = tag
                                             /\ calls[j].ok }) = 1
        /\ \A j \in CallIdx :
              calls[j].op = "set_category" =>
                 \E a \in 1..(j - 1) : /\ calls[a].op = "ensure_category_exists"
                                       /\ calls[a].arg = calls[j].arg
        /\ ~NoKeyword => \E j \in CallIdx : calls[j].op = "filter_emails"

\* C17: in a run that connected, has a keyword and met no provider failure and
\* no cancellation, the search completed with every filter it was given, and
\* the results are those of the matching messages, in the order of the search.
C17_SearchAppliesFiltersInOrder ==
    (Returned /\ connected /\ faults = 0 /\ ~NoKeyword /\ ~should_stop) =>
        /\ \E j \in CallIdx : calls[j].op = "filter_emails" /\ calls[j].ok
        /\ emails = Matching
        /\ [k \in 1..Len(results) |-> results[k].email] = Matching

\* the (subject, keyword) pairs of the folders above in which the subject
\* holds the keyword when case is ignored: "Invoice from ACME" holds "invoice",
\* "ACME" and "Voice" but not "acme corp"; "Facture" holds "ACT"
SubjectHoldsKeyword ==
    { <<InvoiceFromAcme, kwInvoice>>, <<InvoiceFromAcme, kwACME>>,
      <<InvoiceFromAcme, kwVoice>>, <<Facture, kwACT>> }

\* C18: filter_emails returns, in folder order, exactly the mail items that
\* pass the unread filter and whose subject holds at least one keyword as a
\* case-insensitive substring; an item matching no keyword is never returned.
C18_MatchIsCaseInsensitiveSubstring ==
    calls # <<>> =>
        /\ \A j \in 1..Len(inbox) :
              (\E n \in 1..Len(emails) : emails[n] = j)
              <=> /\ inbox[j].Class = olMail
                  /\ unread_only => inbox[j].UnRead
                  /\ \E k \in 1..Len(keywords) :
                        <<inbox[j].Subject, keywords[k]>> \in SubjectHoldsKeyword
        /\ \A a, b \in 1..Len(emails) : a < b => emails[a] < emails[b]

\* C18 witness: of "Invoice from ACME" and "Facture", searched for "acme corp"
\* and "Voice", only the first is returned
C18_Witness ==
    /\ calls # <<>>
    /\ Len(inbox) = 2
    /\ inbox[1].Subject = InvoiceFromAcme /\ inbox[1].Class = olMail
    /\ inbox[2].Subject = Facture /\ inbox[2].Class = olMail
    /\ keywords = <<kwAcmeCorp, kwVoice>>
    /\ emails = <<1>>

\* C20: sanitize_text applied to its own result gives that result again.
C20_SanitizeIdempotent ==
    Len(sanitized) = 3 => sanitized[3] = sanitized[2]

\* C20 witness: a text that sanitize_text changed, and not to the empty text,
\* has been sanitized twice
C20_Witness ==
    /\ Len(sanitized) = 3
    /\ sanitized[2] # sanitized[1]
    /\ sanitized[2] # <<>>

\* "Co_20240102_F_1", the name without extension of the artifact of a message
\* from "Co" (or "x@co.fr") of 2 January 2024 with subject "F:1"
ArtifactStem ==
    <<"C", "o", "_", "2", "0", "2", "4", "0", "1", "0", "2", "_", "F", "_", "1">>

\* every generate_email_pdf call so far was for one and the same message of
\* that sender, date and subject
SameMessage ==
    \A k \in 1..Len(generated) :
        /\ generated[k].sender = <<"C", "o">>
        /\ generated[k].subject = <<"F", ":", "1">>
        /\ generated[k].attachment_paths = generated[1].attachment_paths

\* C19: when the artifact of one sender, date and subject is generated again
\* and again into an empty folder, the k-th call returns name.pdf for k = 1 and
\* name_{k-1}.pdf afterwards (or the merged document of that name), and no call
\* returns a path an earlier call returned.
C19_RepeatedNameGetsCounter ==
    (faults = 0 /\ has_reportlab /\ SameMessage) =>
        /\ \A k \in 1..Len(generated) :
              LET name == ArtifactStem \o (IF k = 1 THEN <<>>
                                           ELSE <<"_">> \o Decimal(k - 1))
              IN  generated[k].path \in { name \o DotPdf, name \o Complet }
        /\ \A a, b \in 1..Len(generated) :
              a # b => generated[a].path # generated[b].path

\* the last provider call was save_attachments on the current message, and
\* the provider failed on one of its attachments
SaveFailedOnOne ==
    /\ calls # <<>>
    /\ calls[Len(calls)] = Call("save_attachments", Email, "com_error", TRUE)

\* C21: when saving one attachment of a message fails, the message still
\* goes on to rendering, and with every other attachment of the message saved
\* and returned.
C21_OtherAttachmentsStillSaved ==
    SaveFailedOnOne =>
        /\ pc # "failed"
        /\ pc = "render" => attachment_paths = inbox[Email].Attachments - 1

\* C24: whatever happens in a _word_to_pdf or _excel_to_pdf call, the call
\* raises nothing, and by its return Close was called on the document it
\* opened and Quit on the application it started; a Close or Quit that fails
\* is passed over.
C24_SessionsTornDownOnEveryExit ==
    \A c \in 1..Len(office) :
        LET log == office[c].outcome.log
            later(a, op) == \E b \in (a + 1)..Len(log) : log[b].op = op
        IN  /\ office[c].outcome.raised = None
            /\ \A a \in 1..Len(log) :
                  /\ log[a] = ComCall("Open", TRUE) => later(a, "Close")
                  /\ log[a] = ComCall("Dispatch", TRUE) => later(a, "Quit")
                  /\ log[a].op = "Close" => later(a, "Quit")

\* C24 witness: a conversion whose export raised an exception that is no
\* provider error and whose Close raised too has still called Quit
C24_Witness ==
    \E c \in 1..Len(office) :
        /\ office[c].scenario = Scenario(5, "Exception", TRUE, FALSE)
        /\ office[c].outcome.ret = None
        /\ \E a, b \in 1..Len(office[c].outcome.log) :
              /\ a < b
              /\ office[c].outcome.log[a] = ComCall("Close", FALSE)
              /\ office[c].outcome.log[b] = ComCall("Quit", TRUE)

\* the extensions of MergeFiles whose files are documents already (".pdf",
\* ".PDF"), office documents (".docx", ".doc", ".xlsx") and texts (".txt",
\* ".log"); ".png", ".zip" and the empty extension are in none of them
DocumentExts == { <<".", "p", "d", "f">>, <<".", "P", "D", "F">> }
OfficeExts == { <<".", "d", "o", "c", "x">>, <<".", "d", "o", "c">>, <<".", "x", "l", "s", "x">> }
TextExts == { <<".", "t", "x", "t">>, <<".", "l", "o", "g">> }

\* C22: the merged document _merge_with_attachments writes is the primary
\* document followed, in the order of attachment_paths, by every readable
\* PDF attachment as it is and by the conversion of every text and office
\* attachment whose conversion gave a document; images, other extensions,
\* missing files and attachments whose conversion failed (or has no converter
\* on the host) add nothing and do not keep later attachments out.
C22_MergedIsPrimaryThenAttachments ==
    \A c \in 1..Len(merged) :
        LET paths == merged[c].attachment_paths
            content == merged[c].content
            usable(j) == paths[j].exists /\ paths[j].sound
            direct(j) == usable(j) /\ paths[j].ext \in DocumentExts
            converted(j) ==
                /\ usable(j)
                /\ \/ paths[j].ext \in OfficeExts /\ has_win32com
                   \/ paths[j].ext \in TextExts /\ has_reportlab
        IN  content # <<>> =>
                /\ content[1] = Part(0, FALSE)
                /\ \A j \in 1..Len(paths) :
                      /\ direct(j) <=> \E p \in 2..Len(content) : content[p] = Part(j, FALSE)
                      /\ converted(j) <=> \E p \in 2..Len(content) : content[p] = Part(j, TRUE)
                /\ \A p, q \in 1..Len(content) :
                      p < q => content[p].att < content[q].att

\* C22 witness: of a ".doc" whose conversion failed and a ".pdf", in that
\* order, the merged document holds the primary document and then the ".pdf"
C22_Witness ==
    /\ Len(merged) = 1
    /\ has_win32com
    /\ merged[1].attachment_paths = <<File(<<".", "d", "o", "c">>, TRUE, FALSE), File(<<".", "p", "d", "f">>, TRUE, TRUE)>>
    /\ merged[1].content = <<Part(0, FALSE), Part(2, FALSE)>>
    /\ merged[1].returned = <<"a", "_", "c", "o", "m", "p", "l", "e", "t", ".", "p", "d", "f">>

\* C23: after one generate_email_pdf call with attachments into an empty
\* folder, either the call returned the primary path, and the primary
\* document is there as it was written (the merged document could not be
\* written), or, nothing else having failed, it returned the primary path
\* with "_complet.pdf" in place of its extension and the folder holds that
\* file and no other.
C23_MergedNameOrPrimaryKept ==
    ( /\ Len(generated) = 1
      /\ has_reportlab /\ has_pypdf2
      /\ generated[1].attachment_paths # <<>>
      /\ generated[1].path # PDFGeneratorError ) =>
        LET primary == generate_pdf_filename(generated[1].sender,
                                             generated[1].received_time,
                                             generated[1].subject, Now)
            complet == splitext(primary)[1] \o Complet
        IN  IF faults = 0
            THEN /\ generated[1].path = complet
                 /\ DOMAIN output_dir = {complet}
            ELSE generated[1].path = primary =>
                    /\ exists(output_dir, primary)
                    /\ output_dir[primary] = 1

\* a gateway call of the setup phase failed: a category could not be created,
\* or the mailbox of the search was not found
SetupCallFailed ==
    \E c \in CallIdx :
        /\ ~calls[c].ok
        /\ calls[c].op \in {"ensure_category_exists", "filter_emails"}

\* no message was visited: nothing processed, nothing recorded, no call made
\* on a message, and the worker is not inside the loop
NoMessageVisited ==
    /\ stats.processed = 0
    /\ results = <<>>
    /\ \A c \in CallIdx : calls[c].email = 0
    /\ pc \in {"idle", "connect", "ensure", "keywords", "folder", "search",
                "except", "finally", "returned", "raised"}

C26_NoStopRequestLost ==
    (stop_at[1] # None /\ pc = "enter") => stop_at = <<"enter", i>>

\* the number of logged results with the given status
CountOf(status) == Cardinality({ k \in 1..Len(results) : results[k].status = status })

\* C27: when process_emails has returned, processed is the length of the
\* result log and success, failed and skipped are the numbers of logged
\* results with status SUCCESS, FAILED and SKIPPED, every logged result having
\* one of the three; and no step of a run makes a counter smaller.
C27_CountersAgreeWithLog ==
    /\ [](Returned =>
            /\ stats.processed = Len(results)
            /\ stats.success = CountOf(SUCCESS)
            /\ stats.failed = CountOf(FAILED)
            /\ stats.skipped = CountOf(SKIPPED)
            /\ \A k \in 1..Len(results) : results[k].status \in {SUCCESS, FAILED, SKIPPED}
            /\ stats.processed = stats.success + stats.failed + stats.skipped)
    /\ [][ /\ stats'.processed >= stats.processed
           /\ stats'.success >= stats.success
           /\ stats'.failed >= stats.failed
           /\ stats'.skipped >= stats.skipped ]_vars

\* C27 witness: a returned run whose log holds a failed and then a skipped
\* message
C27_Witness ==
    /\ Returned
    /\ Len(results) = 2
    /\ results[1].status = FAILED /\ results[2].status = SKIPPED
    /\ stats.failed = 1 /\ stats.skipped = 1 /\ stats.processed = 2

\* C28: the result log never holds more than one SKIPPED result, a SKIPPED
\* result is the last of the log, stats.skipped is at most 1, and once the
\* last logged result is SKIPPED the worker starts no further message.
C28_AtMostOneSkippedAndLast ==
    /\ CountOf(SKIPPED) <= 1
    /\ \A k \in 1..Len(results) : results[k].status = SKIPPED => k = Len(results)
    /\ stats.skipped <= 1
    /\ (results # <<>> /\ results[Len(results)].status = SKIPPED) =>
          pc \in {"loop", "finish", "finally", "returned"}

\* C28 witness: a returned run of two matching messages whose first message
\* was skipped; the second was never started
C28_Witness ==
    /\ Returned
    /\ stats.total = 2
    /\ Len(results) = 1 /\ results[1].status = SKIPPED
    /\ stats.skipped = 1
    /\ \A c \in CallIdx : calls[c].email # emails[2]

\* the paths generate_email_pdf has returned so far
ArtifactPaths ==
    { generated[k].path : k \in { j \in 1..Len(generated) :
                                   generated[j].path # PDFGeneratorError } }

\* C29: no two generate_email_pdf calls into one output folder return the
\* same artifact path, and a file that a call returned as its artifact is
\* neither rewritten nor removed by a later call.
C29_NoArtifactOverwritten ==
    /\ [](\A a, b \in 1..Len(generated) :
            ( /\ a # b
              /\ generated[a].path # PDFGeneratorError
              /\ generated[b].path # PDFGeneratorError )
                => generated[a].path # generated[b].path)
    /\ [][\A f \in ArtifactPaths :
            exists(output_dir, f) =>
                (exists(output_dir', f) /\ output_dir'[f] = output_dir[f])]_vars

\* the logged result k is SKIPPED and no artifact was generated for its
\* message: the skip was made on entry, before the attachments were saved or
\* before the rendering
SkippedEarly(k) ==
    /\ results[k].status = SKIPPED
    /\ \A c \in CallIdx :
          calls[c].email = results[k].email => calls[c].op # "generate_email_pdf"

\* C30: a message skipped on entry, before the attachment save or before the
\* rendering is in the mailbox as it was (category, read flag, folder), no
\* mutator was called on it and its result carries no artifact path; a skipped
\* message that was changed was skipped at the checkpoint before the move.
C30_EarlySkipLeavesMessageUntouched ==
    \A k \in 1..Len(results) :
        /\ SkippedEarly(k) =>
              /\ inbox[results[k].email] = NewItem(results[k].email)
              /\ results[k].pdf_path = None
              /\ \A c \in CallIdx :
                    calls[c].email = results[k].email =>
                        calls[c].op \notin {"set_category", "mark_as_read", "move_to"}
        /\ (results[k].status = SKIPPED
              /\ inbox[results[k].email] # NewItem(results[k].email)) =>
              /\ results[k].pdf_path # None
              /\ inbox[results[k].email].Folder = "Inbox"

\* C30 witness: an unread message with attachments was skipped before the
\* rendering, after its attachments had been saved, and is still unread,
\* untagged and in the inbox
C30_Witness ==
    \E k \in 1..Len(results) :
        /\ SkippedEarly(k)
        /\ \E c \in CallIdx : calls[c] = Call("save_attachments", results[k].email, "", TRUE)
        /\ inbox[results[k].email].UnRead
        /\ inbox[results[k].email].Categories = ""
        /\ inbox[results[k].email].Folder = "Inbox"
        /\ results[k].pdf_path = None

====
